---------------------------- MODULE Spec2Model ----------------------------
(***************************************************************************)
(* Model of the Codenames grid helper (src/src/components/CodenamesGrid.tsx)*)
(*                                                                         *)
(* Three layers are modelled:                                              *)
(*   - the seeded generator (xfnv1a, mulberry32, shuffleArraySeeded,       *)
(*     generateSideA, generateSideB, generateGrid) as operators computed   *)
(*     the way the code computes them, with 32-bit words kept as pairs of  *)
(*     16-bit halves <<hi, lo>>;                                           *)
(*   - the CodenamesGrid component (state hooks, the three effects and the *)
(*     input handlers) as a state machine;                                 *)
(*   - one call of xfnv1a, seedToRng and shuffleArraySeeded, the shuffle   *)
(*     one loop round at a time, and the configuration digest that the     *)
(*     specification describes and the source does not hold.               *)
(*                                                                         *)
(* Strings that the generator hashes are sequences of character codes.     *)
(* Array positions are 0-based as in the source; the element at position i *)
(* of a JavaScript array is element i + 1 of the modelling sequence.       *)
(***************************************************************************)
EXTENDS Integers, Sequences, FiniteSets

(***************************************************************************)
(* JavaScript is strict: an expression is evaluated once, when the         *)
(* statement that holds it runs.  Bind(v, F) is F applied to the value of  *)
(* v, computed once ("const x = v; ... F(x)").                             *)
(***************************************************************************)
Bind(v, F(_)) == CHOOSE r \in {F(x) : x \in {v}} : TRUE
Bind2(v, w, F(_, _)) == CHOOSE r \in {F(x, y) : x \in {v}, y \in {w}} : TRUE

\* for (let i = lo; i <= hi; i += 1) st = Body(st, i).  The range is split
\* in two halves run one after the other, which keeps the evaluation shallow.
RECURSIVE ForUp(_, _, _, _)
ForUp(Body(_, _), st, lo, hi) ==
    IF lo > hi THEN st
    ELSE IF lo = hi THEN Body(st, lo)
    ELSE Bind(ForUp(Body, st, lo, (lo + hi) \div 2),
              LAMBDA first : ForUp(Body, first, ((lo + hi) \div 2) + 1, hi))

\* for (let i = hi; i >= lo; i -= 1) st = Body(st, i)
RECURSIVE ForDown(_, _, _, _)
ForDown(Body(_, _), st, hi, lo) ==
    IF lo > hi THEN st
    ELSE IF lo = hi THEN Body(st, lo)
    ELSE Bind(ForDown(Body, st, hi, ((lo + hi) \div 2) + 1),
              LAMBDA first : ForDown(Body, first, (lo + hi) \div 2, lo))

(***************************************************************************)
(* 32-bit words.  A word w is <<hi, lo>> with w = hi * 65536 + lo.         *)
(***************************************************************************)

\* the bit of weight p of a ^ b and of a | b
XorBit(a, b, p) == (((a \div p) + (b \div p)) % 2) * p
OrBit(a, b, p) == IF ((a \div p) % 2) + ((b \div p) % 2) > 0 THEN p ELSE 0

\* a ^ b on one 16-bit half
BitXor(a, b) ==
    XorBit(a, b, 1) + XorBit(a, b, 2) + XorBit(a, b, 4) + XorBit(a, b, 8)
    + XorBit(a, b, 16) + XorBit(a, b, 32) + XorBit(a, b, 64) + XorBit(a, b, 128)
    + XorBit(a, b, 256) + XorBit(a, b, 512) + XorBit(a, b, 1024)
    + XorBit(a, b, 2048) + XorBit(a, b, 4096) + XorBit(a, b, 8192)
    + XorBit(a, b, 16384) + XorBit(a, b, 32768)

\* a | b on one 16-bit half
BitOr(a, b) ==
    OrBit(a, b, 1) + OrBit(a, b, 2) + OrBit(a, b, 4) + OrBit(a, b, 8)
    + OrBit(a, b, 16) + OrBit(a, b, 32) + OrBit(a, b, 64) + OrBit(a, b, 128)
    + OrBit(a, b, 256) + OrBit(a, b, 512) + OrBit(a, b, 1024)
    + OrBit(a, b, 2048) + OrBit(a, b, 4096) + OrBit(a, b, 8192)
    + OrBit(a, b, 16384) + OrBit(a, b, 32768)

\* x ^ y on 32-bit words
Xor32(x, y) ==
    Bind2(x, y, LAMBDA a, b : << BitXor(a[1], b[1]), BitXor(a[2], b[2]) >>)

\* c | x for a small constant c < 65536 (1 | t, 61 | r)
OrSmall32(c, x) == Bind(x, LAMBDA a : << a[1], BitOr(c, a[2]) >>)

\* (x + y) mod 2^32
Add32(x, y) ==
    Bind2(x, y, LAMBDA a, b :
        << (a[1] + b[1] + ((a[2] + b[2]) \div 65536)) % 65536,
           (a[2] + b[2]) % 65536 >>)

\* x >>> n for 1 <= n <= 15 (unsigned shift)
Shr32(x, n) ==
    Bind(x, LAMBDA a :
        << a[1] \div (2 ^ n), (a[1] % (2 ^ n)) * (2 ^ (16 - n)) + (a[2] \div (2 ^ n)) >>)

\* A JavaScript number in -2^31 .. 2^32 - 1 is <<hi, lo>> with
\* -32768 <= hi < 65536, 0 <= lo < 65536 and the value hi * 65536 + lo.
\* ToInt32(w): the number that ^, | and Math.imul return for the bits w
ToInt32(w) ==
    Bind(w, LAMBDA a : << IF a[1] >= 32768 THEN a[1] - 65536 ELSE a[1], a[2] >>)

\* >>> 0 that leaves the sign in place
Ushr0KeepsSign(v) == v

\* v >>> 0: the unsigned reading of the low 32 bits of v
Ushr0(v) == Bind(v, LAMBDA a : << a[1] % 65536, a[2] >>)

\* the full product of two 16-bit halves as a word, computed bytewise so that
\* no intermediate value leaves the range of the model checker's integers
Mul16(a, b) ==
    LET p0  == (a % 256) * b
        p1  == (a \div 256) * b
        sum == (p1 % 256) * 256 + (p0 % 65536)
        hi  == (p1 \div 256) + (p0 \div 65536) + (sum \div 65536)
    IN  << hi, sum % 65536 >>

\* Math.imul(x, y): the low 32 bits of the product
Imul(x, y) ==
    Bind2(x, y, LAMBDA a, b :
        Bind(Mul16(a[2], b[2]), LAMBDA ll :
            << (ll[1] + Mul16(a[1], b[2])[2] + Mul16(a[2], b[1])[2]) % 65536,
               ll[2] >>))

(***************************************************************************)
(* The string hash and the pseudo-random generator.                        *)
(***************************************************************************)

\* 2166136261 = 0x811C9DC5
FnvOffset == << 33052, 40389 >>
\* 16777619 = 0x01000193
FnvPrime == << 256, 403 >>
\* 0x6D2B79F5
MulberryStep == << 27947, 31221 >>

\* a round that multiplies before it mixes the character in (FNV-1)
FnvStepMultipliesFirst(str, h, i) ==
    Xor32(Imul(h, FnvPrime), << 0, str[i + 1] >>)

\* one round of the loop of xfnv1a, on the bits of h; i is the 0-based
\* position in str
FnvStep(str, h, i) == Imul(Xor32(h, << 0, str[i + 1] >>), FnvPrime)

\* h holds an int32 after the first round; return h >>> 0
xfnv1a(str) ==
    Bind(str, LAMBDA s :
        LET Body(h, i) == FnvStep(s, h, i)
        IN  Ushr0(ToInt32(ForUp(Body, Ushr0(FnvOffset), 0, Len(s) - 1))))

\* The closure returned by mulberry32(a) is represented by its captured
\* variable t; the code never truncates t, but every use of it goes through
\* a 32-bit conversion, so t is kept modulo 2^32.
mulberry32(a) == Ushr0(a)

\* One call of the closure: [t |-> the state after the call, k |-> the
\* numerator of the returned value k / 4294967296].
MulberryCall(t0) ==
    Bind(Add32(t0, MulberryStep), LAMBDA t :
    Bind(Imul(Xor32(t, Shr32(t, 15)), OrSmall32(1, t)), LAMBDA r1 :
    Bind(Xor32(r1, Add32(r1, Imul(Xor32(r1, Shr32(r1, 7)), OrSmall32(61, r1)))),
         LAMBDA r2 : [t |-> t, k |-> Ushr0(ToInt32(Xor32(r2, Shr32(r2, 14))))])))

\* "default"
DefaultSeed == << 100, 101, 102, 97, 117, 108, 116 >>

\* a seed used as typed, empty or not
SeedAsTyped(seed) == seed

\* seed || "default"
SeedOrDefault(seed) == IF seed = << >> THEN DefaultSeed ELSE seed

seedToRng(seed) ==
    Bind(seed, LAMBDA s : mulberry32(xfnv1a(SeedOrDefault(s))))

\* Math.floor((k / 4294967296) * m) for a small positive integer m; the
\* double product is exact because k * m < 2^53
FloorMul(k, m) == (k[1] * m + ((k[2] * m) \div 65536)) \div 65536

(***************************************************************************)
(* shuffleArraySeeded                                                      *)
(***************************************************************************)

\* a swap that copies s[j] over s[i] and forgets s[i]
SwapOverwrites(s, i, j) ==
    IF j >= 0 /\ j < Len(s) THEN [s EXCEPT ![i + 1] = s[j + 1]] ELSE s

\* [s[i], s[j]] = [s[j], s[i]].  A j before the array reads undefined and
\* writes a property that is no element; a j past the end reads undefined
\* and lengthens the array.
Swap(s, i, j) ==
    IF j >= 0 /\ j < Len(s)
    THEN [s EXCEPT ![i + 1] = s[j + 1], ![j + 1] = s[i + 1]]
    ELSE IF j < 0
    THEN [s EXCEPT ![i + 1] = "undefined"]
    ELSE [n \in 1..(j + 1) |->
            IF n = j + 1 THEN s[i + 1]
            ELSE IF n = i + 1 \/ n > Len(s) THEN "undefined" ELSE s[n]]

\* the loop runs for i = length - 1 down to one less than this
ShuffleLastNone == 1 - 1

\* the last i the loop runs for (i > 0)
ShuffleLast == 1

\* one round of the loop: st = [result, t], t being the generator's state;
\* k and j of the round are kept with the result
ShuffleStep(st, i) ==
    Bind(MulberryCall(st.t), LAMBDA d :
    Bind(FloorMul(d.k, i + 1), LAMBDA j :
        [result |-> Swap(st.result, i, j), t |-> d.t, k |-> d.k, j |-> j]))

shuffleArraySeeded(array, rnd) ==
    Bind2(array, rnd, LAMBDA arr, t :
        ForDown(ShuffleStep, [result |-> arr, t |-> t],
                Len(arr) - 1, ShuffleLast).result)

(***************************************************************************)
(* The generator.  Colours are the strings of CellColor; "undefined" is    *)
(* the value of an array slot that holds no colour.                        *)
(***************************************************************************)

CellColors == {"yellow", "green", "black"}

Max(a, b) == IF a >= b THEN a ELSE b
Min(a, b) == IF a <= b THEN a ELSE b

\* clamp with the upper bound one too low
clampOffByOne(value, min, max) == Max(min, Min(max - 1, value))
\* clamp that forgets the lower bound
clampNoLowerBound(value, min, max) == Min(max, value)

clamp(value, min, max) == Max(min, Min(max, value))

\* a sequence of n copies of v (n <= 0 gives the empty sequence, as the
\* push loops do)
Repeat(v, n) ==
    LET Body(arr, i) == Append(arr, v)
    IN  ForUp(Body, << >>, 0, n - 1)

\* the string suffixes the generator appends to the seed
SuffixA == << 124, 65 >>
SuffixPins == << 124, 112, 105, 110, 115 >>
SuffixPool1 == << 124, 112, 111, 111, 108, 49 >>
SuffixPool2 == << 124, 112, 111, 111, 108, 50 >>

\* generateSideA that does not take the bad cells out of the neutral ones
generateSideANeutralIgnoresBad(numGood, numBad, totalCells, seed) ==
    LET clampedGood == clamp(numGood, 0, totalCells)
        clampedBad  == clamp(numBad, 0, totalCells - clampedGood)
        numNeutral  == totalCells - clampedGood
        cells == Repeat("green", clampedGood) \o Repeat("black", clampedBad)
                    \o Repeat("yellow", numNeutral)
        rng == seedToRng(seed \o SuffixA)
    IN  shuffleArraySeeded(cells, rng)

generateSideA(numGood, numBad, totalCells, seed) ==
    LET clampedGood == clamp(numGood, 0, totalCells)
        clampedBad  == clamp(numBad, 0, totalCells - clampedGood)
        numNeutral  == totalCells - clampedGood - clampedBad
        cells == Repeat("green", clampedGood) \o Repeat("black", clampedBad)
                    \o Repeat("yellow", numNeutral)
        rng == seedToRng(seed \o SuffixA)
    IN  shuffleArraySeeded(cells, rng)

\* Array.prototype.findIndex for "is green" / "is not green": the 0-based
\* position of the first match, -1 when there is none
FindIndex(arr, wantGreen) ==
    LET Body(found, i) ==
            IF found = -1 /\ ((arr[i + 1] = "green") = wantGreen) THEN i ELSE found
    IN  ForUp(Body, -1, 0, Len(arr) - 1)

\* arr.splice(idx, 1): the array without position idx (unchanged when idx is
\* past the end)
Splice(arr, idx) ==
    IF idx < Len(arr)
    THEN SubSeq(arr, 1, idx) \o SubSeq(arr, idx + 2, Len(arr))
    ELSE arr

\* arr.splice(idx, 1)[0] and arr.shift(): the removed element, undefined
\* when there is none
ItemAt(arr, idx) == IF idx < Len(arr) THEN arr[idx + 1] ELSE "undefined"

\* the positions of base that hold green, in increasing order
GreenIndices(base) ==
    LET Body(acc, i) == IF base[i + 1] = "green" THEN Append(acc, i) ELSE acc
    IN  ForUp(Body, << >>, 0, Len(base) - 1)

\* the hard-wired number of shared green positions
PinCount == 3

\* PinStep that leaves the pinned green in the pool
PinStepKeepsPool(pinnedIndices, st, n) ==
    [result |-> [st.result EXCEPT ![pinnedIndices[n + 1] + 1] = "green"],
     pool   |-> st.pool]

\* for (const idx of pinnedIndices): pin the position and drop one green
\* from the pool.  st = [result, pool]; n is the 0-based position in
\* pinnedIndices
PinStep(pinnedIndices, st, n) ==
    Bind(FindIndex(st.pool, TRUE), LAMBDA poolGreenIdx :
        [result |-> [st.result EXCEPT ![pinnedIndices[n + 1] + 1] = "green"],
         pool   |-> IF poolGreenIdx # -1
                    THEN Splice(st.pool, poolGreenIdx)
                    ELSE st.pool])

\* UnpinnedStep that takes the front of the pool whatever its colour
UnpinnedStepTakesFront(base, pinnedIndexSet, st, i) ==
    IF base[i + 1] = "green" /\ i \notin pinnedIndexSet
    THEN [result |-> [st.result EXCEPT ![i + 1] = ItemAt(st.pool, 0)],
          pool   |-> Splice(st.pool, 0)]
    ELSE st

\* an unpinned step that reads the pool and leaves its entry there
UnpinnedStepKeepsPool(base, pinnedIndexSet, st, i) ==
    IF base[i + 1] = "green" /\ i \notin pinnedIndexSet
    THEN [result |-> [st.result EXCEPT ![i + 1] = ItemAt(st.pool, 0)],
          pool   |-> st.pool]
    ELSE st

\* the loop over the green positions of side A that are not pinned
UnpinnedStep(base, pinnedIndexSet, st, i) ==
    IF base[i + 1] = "green" /\ i \notin pinnedIndexSet
    THEN Bind(FindIndex(st.pool, FALSE), LAMBDA found :
            LET takeIdx == IF found = -1 THEN 0 ELSE found
                item    == ItemAt(st.pool, takeIdx)
            IN  [result |-> [st.result EXCEPT ![i + 1] = item],
                 pool   |-> Splice(st.pool, takeIdx)])
    ELSE st

\* the final loop: every slot still undefined takes the front of the pool,
\* yellow when the pool is empty
FillStep(st, i) ==
    IF st.result[i + 1] = "undefined"
    THEN LET item == ItemAt(st.pool, 0)
         IN  [result |-> [st.result EXCEPT ![i + 1] =
                             IF item = "undefined" THEN "yellow" ELSE item],
              pool   |-> Splice(st.pool, 0)]
    ELSE st

\* PinnedIndices that selects one position too few
PinnedIndicesOneShort(base, seed) ==
    Bind(GreenIndices(base), LAMBDA greenIndices :
        SubSeq(shuffleArraySeeded(greenIndices, seedToRng(seed \o SuffixPins)),
               1, Min(PinCount - 1, Len(greenIndices))))

\* the pinned positions of side B, in the order the code selects them
PinnedIndices(base, seed) ==
    Bind(GreenIndices(base), LAMBDA greenIndices :
        SubSeq(shuffleArraySeeded(greenIndices, seedToRng(seed \o SuffixPins)),
               1, Min(PinCount, Len(greenIndices))))

\* generateSideB up to the final loop: [result, pool] as the loop finds them
SideBBeforeFill(numGood, numBad, totalCells, seed) ==
    Bind(generateSideA(numGood, numBad, totalCells, seed), LAMBDA base :
    Bind(PinnedIndices(base, seed), LAMBDA pinnedIndices :
    LET pinnedIndexSet == {pinnedIndices[n] : n \in 1..Len(pinnedIndices)}
        Pin(st, n)      == PinStep(pinnedIndices, st, n)
        Unpinned(st, i) == UnpinnedStep(base, pinnedIndexSet, st, i)
    IN
    Bind([result |-> Repeat("undefined", totalCells), pool |-> base], LAMBDA st0 :
    Bind(ForUp(Pin, st0, 0, Len(pinnedIndices) - 1), LAMBDA st1 :
    Bind(shuffleArraySeeded(st1.pool, seedToRng(seed \o SuffixPool1)), LAMBDA pool1 :
    Bind(ForUp(Unpinned, [result |-> st1.result, pool |-> pool1], 0, Len(base) - 1),
         LAMBDA st3 :
        [result |-> st3.result,
         pool   |-> shuffleArraySeeded(st3.pool, seedToRng(seed \o SuffixPool2))]))))))

generateSideB(numGood, numBad, totalCells, seed) ==
    Bind(SideBBeforeFill(numGood, numBad, totalCells, seed), LAMBDA st :
        ForUp(FillStep, st, 0, Len(st.result) - 1).result)

generateGrid(numGood, numBad, totalCells, seed, side) ==
    IF side = "B"
    THEN generateSideB(numGood, numBad, totalCells, seed)
    ELSE generateSideA(numGood, numBad, totalCells, seed)

(***************************************************************************)
(* State.                                                                  *)
(*   genIn, genPc, gridA, gridB, threw: a caller of the generator, used to *)
(*     exercise generateSideA and generateSideB on drawn arguments;        *)
(*   the remaining variables: the CodenamesGrid component.                 *)
(***************************************************************************)
VARIABLES
    genIn,          \* the arguments [numGood, numBad, totalCells, seed]
    genPc,          \* "ready", then "A" after generateSideA, "B" after generateSideB
    gridA,          \* what generateSideA returned
    gridB,          \* what generateSideB returned
    threw,          \* TRUE when a call raised an error
    config,         \* useState: BoardConfig
    cells,          \* useState: CellColor[]
    revealed,       \* useState: boolean[]
    isLoaded,       \* useState
    skipNextRegen,  \* useState
    storage,        \* localStorage[STORAGE_KEY]
    queue,          \* state updates set by the effects of this commit
    effects,        \* the effects of this commit that have not run yet
    mounted,        \* history: the stored value found at mount
    loadPath,       \* history: the branch the load effect took
    lastGenCall,    \* history: the arguments of the last generateGrid call
    ops,            \* history: number of user inputs handled
    lastOp,         \* history: "config", "toggle" or "reset", the last user input
    coStr,          \* the string given to xfnv1a and seedToRng
    coArray,        \* the caller's array given to shuffleArraySeeded
    coSource,       \* "mulberry": rnd is seedToRng(coStr); "any": any source
    coPc,           \* "ready", "seeded", "loop", "done", "digest"
    coHash,         \* what xfnv1a(coStr) returned
    coT,            \* the variable t of the mulberry32 closure
    coResult,       \* the local array result of shuffleArraySeeded
    coI,            \* the loop variable i
    coDraws,        \* history: number of calls of rnd
    coK,            \* history: numerators k of the values k / 2^32 rnd returned
    coJ,            \* history: the pairs << i, j >> of the swaps
    dgIn,           \* the configuration given to configDigest
    dgOut           \* the digests of dgIn for side A and for side B

genVars  == << genIn, genPc, gridA, gridB, threw >>
compVars == << config, cells, revealed, isLoaded, skipNextRegen, storage,
               queue, effects, mounted, loadPath, lastGenCall, ops, lastOp >>
coreVars == << coStr, coArray, coSource, coPc, coHash, coT, coResult, coI,
               coDraws, coK, coJ, dgIn, dgOut >>
vars     == << genVars, compVars, coreVars >>

(***************************************************************************)
(* Bounds of the exploration.                                              *)
(***************************************************************************)

\* the generator is called on every grid of at most MaxCells cells
MaxCells == 5
\* and on the standard board
BoardCells == 25
BoardGood == 9

\* seeds: "", "a", "abc", "default"
Seeds == { << >>, << 97 >>, << 97, 98, 99 >>, DefaultSeed }

GenInputs ==
    [numGood : -1..(MaxCells + 1), numBad : -1..(MaxCells + 1),
     totalCells : -1..MaxCells, seed : Seeds]
    \cup
    [numGood : {BoardGood}, numBad : 0..(BoardCells - BoardGood),
     totalCells : {BoardCells}, seed : Seeds]

\* seeds the user types: "", "a"
TypedSeeds == { << >>, << 97 >> }
\* seeds randomSeed() draws: "k3", "0" (base-36 text, never empty)
RandomSeeds == { << 107, 51 >>, << 48 >> }

\* what the user enters in the Good and Bad fields, and in the Size field
CountInputs == { -1, 2, 200 }
SizeInputs == { 1, 3, 11 }

\* number of user inputs followed
MaxOps == 1
\* the cells the user clicks are those at positions 0..MaxToggle
MaxToggle == 1

(***************************************************************************)
(* Optional values (undefined, a missing field, a value that is not an     *)
(* array) are sets of at most one element.                                 *)
(***************************************************************************)
None == {}
Some(v) == {v}
Get(o) == CHOOSE v \in o : TRUE
\* o ?? d
Nullish(o, d) == IF o = None THEN d ELSE Get(o)

(***************************************************************************)
(* The stored item.  kind is "absent" (getItem returns null),              *)
(* "unparseable" (JSON.parse throws), "null" (the text null), "v2" (an     *)
(* object with a config) or "legacy" (an object without).  cells and       *)
(* revealed are None when the field is missing or is not an array.         *)
(***************************************************************************)
NoConfig == [gridSize |-> 0, numGood |-> 0, numBad |-> 0, seed |-> << >>, side |-> None]

Item(kind) ==
    [kind |-> kind, config |-> NoConfig, cells |-> None, revealed |-> None,
     gridSize |-> None, numGood |-> None, numBad |-> None, seed |-> None]

V2Item(gridSize, numGood, numBad, seed, side, cellsOpt, revealedOpt) ==
    [Item("v2") EXCEPT
        !.config = [gridSize |-> gridSize, numGood |-> numGood, numBad |-> numBad,
                    seed |-> seed, side |-> side],
        !.cells = cellsOpt, !.revealed = revealedOpt]

LegacyItem(gridSize, numGood, numBad, seed, cellsOpt, revealedOpt) ==
    [Item("legacy") EXCEPT
        !.gridSize = gridSize, !.numGood = numGood, !.numBad = numBad,
        !.seed = seed, !.cells = cellsOpt, !.revealed = revealedOpt]

\* JSON.stringify({ config, cells, revealed }) as JSON.parse reads it back
Serialize(cfg, cellsArr, revealedArr) ==
    V2Item(cfg.gridSize, cfg.numGood, cfg.numBad, cfg.seed, Some(cfg.side),
           Some(cellsArr), Some(revealedArr))

\* the stored items the component is mounted on
StoredItems ==
    { Item("absent"), Item("unparseable"), Item("null"),
      \* written by this component: a 2 x 2 board, side A, its first cell marked
      V2Item(2, 1, 1, << 97 >>, Some("A"),
             Some(generateGrid(1, 1, 4, << 97 >>, "A")),
             Some(<< TRUE, FALSE, FALSE, FALSE >>)),
      \* a board whose cells are not the ones the seed generates, side missing
      V2Item(2, 2, 0, << >>, None,
             Some(<< "green", "green", "yellow", "yellow" >>),
             Some(<< FALSE, FALSE, FALSE, TRUE >>)),
      \* arrays of the right length for a config outside the input ranges
      V2Item(1, 5, 0, << 97 >>, Some("B"), Some(<< "green" >>), Some(<< FALSE >>)),
      \* cells too short, cells missing, revealed too long
      V2Item(2, 1, 1, << 97 >>, Some("A"),
             Some(<< "green", "black", "yellow" >>),
             Some(<< FALSE, FALSE, FALSE, FALSE >>)),
      V2Item(2, 1, 1, << 97 >>, Some("A"), None,
             Some(<< FALSE, FALSE, FALSE, FALSE >>)),
      V2Item(2, 1, 1, << 97 >>, Some("A"),
             Some(<< "green", "black", "yellow", "yellow" >>),
             Some(<< FALSE, FALSE, FALSE, FALSE, FALSE >>)),
      \* legacy items: complete; size, counts and seed missing; not a square;
      \* no arrays
      LegacyItem(Some(2), Some(1), Some(1), Some(<< 97 >>),
                 Some(<< "black", "green", "yellow", "yellow" >>),
                 Some(<< FALSE, TRUE, FALSE, FALSE >>)),
      LegacyItem(None, None, None, None,
                 Some(<< "black", "green", "green", "yellow" >>),
                 Some(<< FALSE, FALSE, FALSE, FALSE >>)),
      LegacyItem(None, Some(1), Some(1), Some(<< 97 >>),
                 Some(<< "black", "green", "yellow" >>),
                 Some(<< FALSE, FALSE, FALSE >>)),
      LegacyItem(Some(2), Some(1), Some(1), Some(<< 97 >>), None, None) }

(***************************************************************************)
(* The component.                                                          *)
(***************************************************************************)

\* the state updates an effect has set and the next render applies
NoUpdates ==
    [config |-> None, cells |-> None, revealed |-> None,
     skipNextRegen |-> None, isLoaded |-> None]

\* a later set of the same state replaces an earlier one
Merge(q, upd) ==
    [n \in DOMAIN q |-> IF upd[n] # None THEN upd[n] ELSE q[n]]

\* the arguments of a generateGrid call, with the gridSize they come from
GenCall(gridSize, numGood, numBad, totalCells, seed, side) ==
    [gridSize |-> gridSize, numGood |-> numGood, numBad |-> numBad,
     totalCells |-> totalCells, seed |-> seed, side |-> side]

inferGridSizeFromCells(cellsOpt) ==
    IF cellsOpt = None THEN None
    ELSE {k \in 0..Len(Get(cellsOpt)) : k * k = Len(Get(cellsOpt))}

IsArrayOfLength(arrOpt, n) == arrOpt # None /\ Len(Get(arrOpt)) = n

\* the fallback of the load effect (lines 208-214 and 216-222)
FreshOutcome(seed) ==
    [path     |-> "fresh",
     config   |-> [gridSize |-> 5, numGood |-> 9, numBad |-> 3, seed |-> seed, side |-> "A"],
     cells    |-> generateGrid(9, 3, 5 * 5, seed, "A"),
     revealed |-> Repeat(FALSE, 5 * 5),
     called   |-> Some(GenCall(5, 9, 3, 5 * 5, seed, "A"))]

\* a load that restores whatever cells are stored without looking at the marks
LoadOutcomeIgnoresRevealed(raw, seed) ==
    IF raw.kind \in {"v2", "legacy"} /\ raw.cells # None /\ raw.revealed # None
    THEN [path |-> raw.kind,
          config |-> [raw.config EXCEPT !.side = "A"],
          cells |-> Get(raw.cells), revealed |-> Get(raw.revealed),
          called |-> None]
    ELSE FreshOutcome(seed)

\* the load effect on the stored item raw; seed is what randomSeed() returns
\* where the effect calls it
LoadOutcome(raw, seed) ==
    IF raw.kind \in {"absent", "unparseable", "null"} THEN FreshOutcome(seed)
    ELSE IF raw.kind = "v2"
    THEN LET cfg == [raw.config EXCEPT !.side = Nullish(raw.config.side, "A")]
             expected == cfg.gridSize * cfg.gridSize
         IN  IF IsArrayOfLength(raw.cells, expected)
                 /\ IsArrayOfLength(raw.revealed, expected)
             THEN [path |-> "v2", config |-> cfg, cells |-> Get(raw.cells),
                   revealed |-> Get(raw.revealed), called |-> None]
             ELSE FreshOutcome(seed)
    ELSE LET savedSize == Nullish(raw.gridSize,
                                  Nullish(inferGridSizeFromCells(raw.cells), 5))
             expected == savedSize * savedSize
         IN  IF IsArrayOfLength(raw.cells, expected)
                 /\ IsArrayOfLength(raw.revealed, expected)
             THEN [path |-> "legacy",
                   config |-> [gridSize |-> savedSize,
                               numGood |-> Nullish(raw.numGood,
                                                   Len(SelectSeq(Get(raw.cells),
                                                       LAMBDA c : c = "green"))),
                               numBad |-> Nullish(raw.numBad,
                                                  Len(SelectSeq(Get(raw.cells),
                                                      LAMBDA c : c = "black"))),
                               seed |-> Nullish(raw.seed, seed),
                               side |-> "A"],
                   cells |-> Get(raw.cells), revealed |-> Get(raw.revealed),
                   called |-> None]
             ELSE FreshOutcome(seed)

\* the state of the component before it is mounted
CompIdle ==
    /\ config = [gridSize |-> 5, numGood |-> 9, numBad |-> 3, seed |-> << >>, side |-> "A"]
    /\ cells = Repeat("yellow", 25)
    /\ revealed = Repeat(FALSE, 25)
    /\ isLoaded = FALSE
    /\ skipNextRegen = FALSE
    /\ storage = Item("absent")
    /\ queue = NoUpdates
    /\ effects = << >>
    /\ mounted = Item("absent")
    /\ loadPath = "none"
    /\ lastGenCall = None
    /\ ops = 0
    /\ lastOp = "none"

\* no call of the hash, the shuffle or the digest is under way
CoreIdle ==
    /\ coStr = << >>
    /\ coArray = << >>
    /\ coSource = "mulberry"
    /\ coPc = "off"
    /\ coHash = << 0, 0 >>
    /\ coT = << 0, 0 >>
    /\ coResult = << >>
    /\ coI = 0
    /\ coDraws = 0
    /\ coK = {}
    /\ coJ = {}
    /\ dgIn = {}
    /\ dgOut = {}

\* the caller of the generator at rest
GenIdle ==
    /\ genIn = [numGood |-> 0, numBad |-> 0, totalCells |-> 0, seed |-> << >>]
    /\ genPc = "idle"
    /\ gridA = << >>
    /\ gridB = << >>
    /\ threw = FALSE

\* the first render: the useState initial values, every effect to run, the
\* stored item whatever an earlier session or anyone else left there
Init ==
    /\ config = [gridSize |-> 5, numGood |-> 9, numBad |-> 3, seed |-> << >>, side |-> "A"]
    /\ cells = Repeat("yellow", 25)
    /\ revealed = Repeat(FALSE, 25)
    /\ isLoaded = FALSE
    /\ skipNextRegen = FALSE
    /\ storage \in StoredItems
    /\ mounted = storage
    /\ queue = NoUpdates
    /\ effects = << "load", "regen", "persist" >>
    /\ loadPath = "none"
    /\ lastGenCall = None
    /\ ops = 0
    /\ lastOp = "none"
    /\ GenIdle
    /\ CoreIdle

totalCells == config.gridSize * config.gridSize

\* useEffect(..., []) of lines 170-224
LoadEffect ==
    /\ effects # << >> /\ Head(effects) = "load"
    /\ \E seed \in RandomSeeds : \E out \in {LoadOutcome(storage, seed)} :
          /\ queue' = Merge(queue,
                [config |-> Some(out.config), cells |-> Some(out.cells),
                 revealed |-> Some(out.revealed),
                 skipNextRegen |-> Some(TRUE), isLoaded |-> Some(TRUE)])
          /\ loadPath' = out.path
          /\ lastGenCall' = IF out.called # None THEN out.called ELSE lastGenCall
    /\ effects' = Tail(effects)
    /\ UNCHANGED << config, cells, revealed, isLoaded, skipNextRegen, storage,
                    mounted, ops, lastOp, genVars, coreVars >>

\* a regenerate effect that makes the new cells and keeps the old marks
RegenEffectKeepsMarks ==
    /\ effects # << >> /\ Head(effects) = "regen"
    /\ effects' = Tail(effects)
    /\ IF ~isLoaded
       THEN UNCHANGED << queue, lastGenCall >>
       ELSE IF skipNextRegen
       THEN /\ queue' = Merge(queue, [NoUpdates EXCEPT !.skipNextRegen = Some(FALSE)])
            /\ UNCHANGED lastGenCall
       ELSE \E seed \in {SeedOrDefault(config.seed)} :
            \E grid \in {generateGrid(config.numGood, config.numBad, totalCells,
                                      seed, config.side)} :
               /\ queue' = Merge(queue, [NoUpdates EXCEPT !.cells = Some(grid)])
               /\ lastGenCall' = Some(GenCall(config.gridSize, config.numGood,
                                              config.numBad, totalCells, seed,
                                              config.side))
    /\ UNCHANGED << config, cells, revealed, isLoaded, skipNextRegen, storage,
                    mounted, loadPath, ops, lastOp, genVars, coreVars >>

\* useEffect(..., [isLoaded, skipNextRegen, config, totalCells]) of lines 226-234
RegenEffect ==
    /\ effects # << >> /\ Head(effects) = "regen"
    /\ effects' = Tail(effects)
    /\ IF ~isLoaded
       THEN UNCHANGED << queue, lastGenCall >>
       ELSE IF skipNextRegen
       THEN /\ queue' = Merge(queue, [NoUpdates EXCEPT !.skipNextRegen = Some(FALSE)])
            /\ UNCHANGED lastGenCall
       ELSE \E seed \in {SeedOrDefault(config.seed)} :
            \E grid \in {generateGrid(config.numGood, config.numBad, totalCells,
                                      seed, config.side)} :
               /\ queue' = Merge(queue,
                     [NoUpdates EXCEPT !.cells = Some(grid),
                                       !.revealed = Some(Repeat(FALSE, totalCells))])
               /\ lastGenCall' = Some(GenCall(config.gridSize, config.numGood,
                                              config.numBad, totalCells, seed,
                                              config.side))
    /\ UNCHANGED << config, cells, revealed, isLoaded, skipNextRegen, storage,
                    mounted, loadPath, ops, lastOp, genVars, coreVars >>

\* a persist effect that does not wait for the load
PersistEffectUnguarded ==
    /\ effects # << >> /\ Head(effects) = "persist"
    /\ effects' = Tail(effects)
    /\ storage' = Serialize(config, cells, revealed)
    /\ UNCHANGED << config, cells, revealed, isLoaded, skipNextRegen, queue,
                    mounted, loadPath, lastGenCall, ops, lastOp, genVars, coreVars >>

\* useEffect(..., [isLoaded, config, cells, revealed]) of lines 236-244
PersistEffect ==
    /\ effects # << >> /\ Head(effects) = "persist"
    /\ effects' = Tail(effects)
    /\ storage' = IF ~isLoaded THEN storage ELSE Serialize(config, cells, revealed)
    /\ UNCHANGED << config, cells, revealed, isLoaded, skipNextRegen, queue,
                    mounted, loadPath, lastGenCall, ops, lastOp, genVars, coreVars >>

\* the effects a render schedules: those with a dependency that changed.
\* A state set to a new object or array always counts as changed.
Scheduled(isLoadedChanged, skipChanged, configSet, cellsSet, revealedSet) ==
    (IF isLoadedChanged \/ skipChanged \/ configSet THEN << "regen" >> ELSE << >>)
    \o (IF isLoadedChanged \/ configSet \/ cellsSet \/ revealedSet
        THEN << "persist" >> ELSE << >>)

\* the render that follows the effects of a commit: it applies the updates
\* they set
Render ==
    /\ effects = << >>
    /\ queue # NoUpdates
    /\ config' = Nullish(queue.config, config)
    /\ cells' = Nullish(queue.cells, cells)
    /\ revealed' = Nullish(queue.revealed, revealed)
    /\ isLoaded' = Nullish(queue.isLoaded, isLoaded)
    /\ skipNextRegen' = Nullish(queue.skipNextRegen, skipNextRegen)
    /\ queue' = NoUpdates
    /\ effects' = Scheduled(isLoaded' # isLoaded, skipNextRegen' # skipNextRegen,
                            queue.config # None, queue.cells # None,
                            queue.revealed # None)
    /\ UNCHANGED << storage, mounted, loadPath, lastGenCall, ops, lastOp, genVars, coreVars >>

\* no effect is left to run and no update to apply: the component waits for
\* the user
Settled == effects = << >> /\ queue = NoUpdates

\* an input handler runs between commits; the render that follows it is part
\* of the step
Handles(nextConfig) ==
    /\ Settled
    /\ ops < MaxOps
    /\ ops' = ops + 1
    /\ lastOp' = "config"
    /\ config' = nextConfig
    /\ effects' = Scheduled(FALSE, FALSE, TRUE, FALSE, FALSE)
    /\ UNCHANGED << cells, revealed, isLoaded, skipNextRegen, storage, queue,
                    mounted, loadPath, lastGenCall, genVars, coreVars >>

\* value is what Number.parseInt returned; NaN returns at once
onChangeGood ==
    \E parsed \in CountInputs :
        LET clamped == clamp(parsed, 0, totalCells)
            maxGoodGivenBad == totalCells - config.numBad
            nextGood == clamp(clamped, 0, maxGoodGivenBad)
        IN  Handles([config EXCEPT !.numGood = nextGood])

onChangeBad ==
    \E parsed \in CountInputs :
        LET clamped == clamp(parsed, 0, totalCells)
            maxBadGivenGood == totalCells - config.numGood
            nextBad == clamp(clamped, 0, maxBadGivenGood)
        IN  Handles([config EXCEPT !.numBad = nextBad])

onChangeGridSize ==
    \E parsed \in SizeInputs :
        LET nextSize == clamp(parsed, 2, 10)
            nextTotal == nextSize * nextSize
            nextGood == clamp(config.numGood, 0, nextTotal)
            nextBad == clamp(config.numBad, 0, nextTotal - nextGood)
        IN  Handles([config EXCEPT !.gridSize = nextSize, !.numGood = nextGood,
                                   !.numBad = nextBad])

onSeedChange ==
    \E nextSeed \in TypedSeeds : Handles([config EXCEPT !.seed = nextSeed])

onRandomizeSeed ==
    \E s \in RandomSeeds : Handles([config EXCEPT !.seed = s])

onChangeSide ==
    \E nextSide \in {"A", "B", "1"} :
        Handles([config EXCEPT !.side = IF nextSide = "B" THEN "B" ELSE "A"])

\* a click on one of the rendered cells
toggleCell ==
    /\ Settled
    /\ ops < MaxOps
    /\ \E index \in 0..Min(MaxToggle, Len(cells) - 1) :
          /\ index < Len(revealed)
          /\ revealed' = [revealed EXCEPT ![index + 1] = ~revealed[index + 1]]
    /\ ops' = ops + 1
    /\ lastOp' = "toggle"
    /\ effects' = Scheduled(FALSE, FALSE, FALSE, FALSE, TRUE)
    /\ UNCHANGED << config, cells, isLoaded, skipNextRegen, storage, queue,
                    mounted, loadPath, lastGenCall, genVars, coreVars >>

resetMarks ==
    /\ Settled
    /\ ops < MaxOps
    /\ revealed' = Repeat(FALSE, totalCells)
    /\ ops' = ops + 1
    /\ lastOp' = "reset"
    /\ effects' = Scheduled(FALSE, FALSE, FALSE, FALSE, TRUE)
    /\ UNCHANGED << config, cells, isLoaded, skipNextRegen, storage, queue,
                    mounted, loadPath, lastGenCall, genVars, coreVars >>

Next ==
    \/ LoadEffect
    \/ RegenEffect
    \/ PersistEffect
    \/ Render
    \/ onChangeGood
    \/ onChangeBad
    \/ onChangeGridSize
    \/ onSeedChange
    \/ onRandomizeSeed
    \/ onChangeSide
    \/ toggleCell
    \/ resetMarks

Spec == Init /\ [][Next]_vars

(***************************************************************************)
(* The caller of the generator.                                            *)
(***************************************************************************)

GenInit ==
    /\ genIn \in GenInputs
    /\ genPc = "ready"
    /\ gridA = << >>
    /\ gridB = << >>
    /\ threw = FALSE
    /\ CompIdle
    /\ CoreIdle

CallGenerateSideA ==
    /\ genPc = "ready"
    /\ gridA' = generateSideA(genIn.numGood, genIn.numBad, genIn.totalCells, genIn.seed)
    /\ genPc' = "A"
    /\ UNCHANGED << genIn, gridB, threw, compVars, coreVars >>

\* new Array(totalCells) raises a RangeError for a negative length
CallGenerateSideB ==
    /\ genPc = "A"
    /\ IF genIn.totalCells < 0
       THEN threw' = TRUE /\ gridB' = gridB
       ELSE /\ threw' = threw
            /\ gridB' = generateSideB(genIn.numGood, genIn.numBad,
                                      genIn.totalCells, genIn.seed)
    /\ genPc' = "B"
    /\ UNCHANGED << genIn, gridA, compVars, coreVars >>

GenNext == CallGenerateSideA \/ CallGenerateSideB

SpecGen == GenInit /\ [][GenNext]_vars

(***************************************************************************)
(* The hash, the random source and the shuffle, one loop round at a time,  *)
(* and the configuration digest.                                           *)
(***************************************************************************)

\* the strings hashed have at most MaxStr characters
MaxStr == 2
\* the arrays shuffled have at most MaxShuffle elements
MaxShuffle == 3

\* character codes: NUL, "a", "|", 0xFF and the largest UTF-16 code unit
CharCodes == { 0, 97, 124, 255, 65535 }
Strings == UNION { [1..m -> CharCodes] : m \in 0..MaxStr } \cup { DefaultSeed }
Arrays == UNION { [1..m -> CellColors] : m \in 0..MaxShuffle }

\* a source other than mulberry32 returns k / 2^32 for one of these k:
\* 0, 0.5 and the largest value below 1
AnyDraws == { << 0, 0 >>, << 32768, 0 >>, << 65535, 65535 >> }

\* array.slice() gives result an array of its own
SliceCopies == TRUE

\* decimal digits of n >= 0, as String(n) writes them
RECURSIVE ToString(_)
ToString(n) == IF n < 10 THEN << 48 + n >> ELSE ToString(n \div 10) \o << 48 + (n % 10) >>

\* value % 26 and Math.floor(value / 26) for an unsigned 32-bit value
Mod26(w) == (((w[1] % 26) * (65536 % 26)) + (w[2] % 26)) % 26
Div26(w) == << w[1] \div 26, (((w[1] % 26) * 65536) + w[2]) \div 26 >>

\* "|"
Pipe == << 124 >>

\* a digest that also hashes the side
configDigestWithSide(cfg) ==
    Bind(xfnv1a(ToString(cfg.gridSize) \o Pipe \o ToString(cfg.numGood) \o Pipe
                \o ToString(cfg.numBad) \o Pipe \o ToString(cfg.overlapGreens)
                \o Pipe \o cfg.seed \o Pipe \o (IF cfg.side = "B" THEN << 66 >> ELSE << 65 >>)),
         LAMBDA h :
            << 65 + Mod26(h), 65 + Mod26(Div26(h)), 65 + Mod26(Div26(Div26(h))) >>)

\* the digest of a configuration: three letters, as character codes
configDigest(cfg) ==
    Bind(xfnv1a(ToString(cfg.gridSize) \o Pipe \o ToString(cfg.numGood) \o Pipe
                \o ToString(cfg.numBad) \o Pipe \o ToString(cfg.overlapGreens)
                \o Pipe \o cfg.seed),
         LAMBDA h :
            << 65 + Mod26(h), 65 + Mod26(Div26(h)), 65 + Mod26(Div26(Div26(h))) >>)

\* the configurations digested, but for the seed and the side
DigestConfigs ==
    [gridSize : {2, 5, 10}, numGood : {0, 9}, numBad : {0, 3}, overlapGreens : {0, 3}]

CoreInit ==
    /\ coStr \in Strings
    /\ coArray \in Arrays
    /\ coSource \in {"mulberry", "any"}
    \* arrays are shuffled under the seeds of Seeds; any source goes with one seed
    /\ coArray # << >> => coStr \in Seeds
    /\ coSource = "any" => coStr = << >>
    /\ coPc = "ready"
    /\ coHash = << 0, 0 >>
    /\ coT = << 0, 0 >>
    /\ coResult = << >>
    /\ coI = 0
    /\ coDraws = 0
    /\ coK = {}
    /\ coJ = {}
    /\ dgIn = {}
    /\ dgOut = {}
    /\ GenIdle
    /\ CompIdle

CallXfnv1a ==
    /\ coPc = "ready"
    /\ coHash' = xfnv1a(coStr)
    /\ coPc' = "hashed"
    /\ UNCHANGED << coStr, coArray, coSource, coT, coResult, coI, coDraws, coK,
                    coJ, dgIn, dgOut, genVars, compVars >>

CallSeedToRng ==
    /\ coPc = "hashed"
    /\ coT' = seedToRng(coStr)
    /\ coPc' = "seeded"
    /\ UNCHANGED << coStr, coArray, coSource, coHash, coResult, coI, coDraws,
                    coK, coJ, dgIn, dgOut, genVars, compVars >>

\* const result = array.slice(); let i = result.length - 1
ShuffleEnter ==
    /\ coPc = "seeded"
    /\ coResult' = coArray
    /\ coI' = Len(coArray) - 1
    /\ coPc' = "loop"
    /\ UNCHANGED << coStr, coArray, coSource, coHash, coT, coDraws, coK, coJ,
                    dgIn, dgOut, genVars, compVars >>

\* one round of the loop of shuffleArraySeeded
ShuffleRound ==
    /\ coPc = "loop"
    /\ coI >= ShuffleLast
    /\ \E st \in IF coSource = "mulberry"
                 THEN {ShuffleStep([result |-> coResult, t |-> coT], coI)}
                 ELSE {[result |-> Swap(coResult, coI, FloorMul(k, coI + 1)),
                        t |-> coT, k |-> k, j |-> FloorMul(k, coI + 1)] :
                            k \in AnyDraws} :
          /\ coResult' = st.result
          /\ coT' = st.t
          /\ coK' = coK \cup {st.k}
          /\ coJ' = coJ \cup {<< coI, st.j >>}
          /\ coArray' = IF SliceCopies THEN coArray ELSE st.result
    /\ coI' = coI - 1
    /\ coDraws' = coDraws + 1
    /\ UNCHANGED << coStr, coSource, coPc, coHash, dgIn, dgOut, genVars, compVars >>

\* the loop condition fails: return result
ShuffleReturn ==
    /\ coPc = "loop"
    /\ ~(coI >= ShuffleLast)
    /\ coPc' = "done"
    /\ UNCHANGED << coStr, coArray, coSource, coHash, coT, coResult, coI,
                    coDraws, coK, coJ, dgIn, dgOut, genVars, compVars >>

\* configDigest of a configuration with the seed coStr, for both sides
CallConfigDigest ==
    /\ coPc = "ready"
    /\ coArray = << >> /\ coSource = "mulberry"
    /\ \E c \in DigestConfigs :
         \E cfg \in {[gridSize |-> c.gridSize, numGood |-> c.numGood,
                      numBad |-> c.numBad, overlapGreens |-> c.overlapGreens,
                      seed |-> coStr, side |-> "A"]} :
            /\ dgIn' = {cfg}
            /\ dgOut' = {[A |-> configDigest(cfg),
                          B |-> configDigest([cfg EXCEPT !.side = "B"])]}
    /\ coPc' = "digest"
    /\ UNCHANGED << coStr, coArray, coSource, coHash, coT, coResult, coI,
                    coDraws, coK, coJ, genVars, compVars >>

CoreNext ==
    \/ CallXfnv1a
    \/ CallSeedToRng
    \/ ShuffleEnter
    \/ ShuffleRound
    \/ ShuffleReturn
    \/ CallConfigDigest

SpecCore == CoreInit /\ [][CoreNext]_vars

(***************************************************************************)
(* Properties of the generator (checked under SpecGen).                    *)
(***************************************************************************)

Count(grid, c) == Cardinality({i \in 1..Len(grid) : grid[i] = c})

\* the 0-based positions that are green on both grids
SharedGreen(a, b) ==
    {i \in 0..(Len(a) - 1) : i < Len(b) /\ a[i + 1] = "green" /\ b[i + 1] = "green"}

\* the 0-based positions that are green on a and not green on b
LostGreen(a, b) ==
    {i \in 0..(Len(a) - 1) : i < Len(b) /\ a[i + 1] = "green" /\ b[i + 1] # "green"}

SeqToSet(q) == {q[n] : n \in 1..Len(q)}

GenValid ==
    /\ genIn.totalCells >= 0
    /\ genIn.numGood \in 0..genIn.totalCells
    /\ genIn.numBad \in 0..(genIn.totalCells - genIn.numGood)

\* C1: for valid (numGood, numBad, totalCells) and every seed, generateSideA
\* returns totalCells cells: exactly numGood green, numBad black and the
\* rest yellow.
C1_SideACounts ==
    (genPc \in {"A", "B"} /\ GenValid) =>
        /\ Len(gridA) = genIn.totalCells
        /\ Count(gridA, "green") = genIn.numGood
        /\ Count(gridA, "black") = genIn.numBad
        /\ Count(gridA, "yellow") = genIn.totalCells - genIn.numGood - genIn.numBad

C1_Witness ==
    /\ genPc = "A" /\ GenValid
    /\ genIn.totalCells = 5 /\ genIn.numGood = 2 /\ genIn.numBad = 1
    /\ Count(gridA, "yellow") = 2
    /\ gridA # << "green", "green", "black", "yellow", "yellow" >>

\* C2: side B is a permutation of side A's multiset: same length, same
\* number of green, black and yellow cells.
C2_SideBConservesCounts ==
    (genPc = "B" /\ genIn.totalCells >= 0) =>
        /\ Len(gridB) = Len(gridA)
        /\ \A c \in CellColors : Count(gridB, c) = Count(gridA, c)

C2_Witness ==
    /\ genPc = "B" /\ GenValid
    /\ genIn.totalCells = 5 /\ genIn.numGood = 2 /\ genIn.numBad = 2
    /\ gridB # gridA
    /\ \A c \in CellColors : Count(gridB, c) = Count(gridA, c)

C5_UnpinnedLoseGreen ==
    (genPc = "B" /\ genIn.totalCells >= 0) =>
        LET g == Count(gridA, "green")
            pinned == SeqToSet(PinnedIndices(gridA, genIn.seed))
        IN  /\ (genIn.totalCells - g >= g - Cardinality(pinned)) =>
                   \A i \in 0..(Len(gridA) - 1) :
                       (gridA[i + 1] = "green" /\ i \notin pinned)
                           => gridB[i + 1] # "green"
            /\ (genIn.totalCells = 25 /\ genIn.numGood = 9 /\ genIn.numBad \in 0..16) =>
                   /\ Cardinality(SharedGreen(gridA, gridB)) = 3
                   /\ Cardinality(LostGreen(gridA, gridB)) = 6

C5_Witness ==
    /\ genPc = "B"
    /\ genIn.totalCells = 25 /\ genIn.numGood = 9 /\ genIn.numBad = 16
    /\ Cardinality(LostGreen(gridA, gridB)) = 6
    /\ \E i \in LostGreen(gridA, gridB) : gridB[i + 1] = "black"

\* C6: with numGood = totalCells and numBad = 0 every cell is green on both
\* sides; with numGood = 0 no cell is green on either side and no position
\* is shared.
C6_Boundaries ==
    (genPc = "B" /\ genIn.totalCells >= 0) =>
        /\ (genIn.numGood = genIn.totalCells /\ genIn.numBad = 0) =>
               /\ gridA = [i \in 1..genIn.totalCells |-> "green"]
               /\ gridB = [i \in 1..genIn.totalCells |-> "green"]
        /\ genIn.numGood = 0 =>
               /\ Len(gridA) = genIn.totalCells /\ Count(gridA, "green") = 0
               /\ Len(gridB) = genIn.totalCells /\ Count(gridB, "green") = 0
               /\ SharedGreen(gridA, gridB) = {}

C6_Witness ==
    /\ genPc = "B"
    /\ genIn.totalCells = 5 /\ genIn.numGood = 5 /\ genIn.numBad = 0
    /\ Count(gridB, "green") = 5

\* C7: for any integers numGood and numBad and any totalCells >= 0 the two
\* generators raise no error and return totalCells cells, each a colour,
\* with clamp(numGood, 0, totalCells) green cells and
\* clamp(numBad, 0, totalCells - green) black cells.
C7_ClampedNeverRejected ==
    (genPc = "B" /\ genIn.totalCells >= 0) =>
        LET good == IF genIn.numGood < 0 THEN 0
                    ELSE IF genIn.numGood > genIn.totalCells THEN genIn.totalCells
                    ELSE genIn.numGood
            room == genIn.totalCells - good
            bad  == IF genIn.numBad < 0 THEN 0
                    ELSE IF genIn.numBad > room THEN room
                    ELSE genIn.numBad
        IN  /\ ~threw
            /\ \A grid \in {gridA, gridB} :
                   /\ Len(grid) = genIn.totalCells
                   /\ \A i \in 1..Len(grid) : grid[i] \in CellColors
                   /\ Count(grid, "green") = good
                   /\ Count(grid, "black") = bad

C7_Witness ==
    /\ genPc = "B"
    /\ genIn.totalCells = 4 /\ genIn.numGood = 6 /\ genIn.numBad = -1
    /\ ~threw
    /\ Count(gridB, "green") = 4

(***************************************************************************)
(* Claims about the component.                                             *)
(***************************************************************************)

\* the value a state has once the pending updates are applied
Pending(name, current) == Nullish(queue[name], current)

\* the size the load effect compares the stored arrays with
StoredSize(raw) ==
    IF raw.kind = "v2" THEN raw.config.gridSize
    ELSE Nullish(raw.gridSize, Nullish(inferGridSizeFromCells(raw.cells), 5))

\* the stored item is an object holding two arrays of gridSize * gridSize entries
StoredValid(raw) ==
    /\ raw.kind \in {"v2", "legacy"}
    /\ IsArrayOfLength(raw.cells, StoredSize(raw) * StoredSize(raw))
    /\ IsArrayOfLength(raw.revealed, StoredSize(raw) * StoredSize(raw))

\* C8: after loading a valid persisted state, once every effect has settled
\* and with no user input, cells and revealed equal the persisted cells and
\* revealed.
C8_RestoredSurvives ==
    (StoredValid(mounted) /\ mounted.kind = "v2" /\ loadPath = "v2"
        /\ Settled /\ ops = 0)
    => (cells = Get(mounted.cells) /\ revealed = Get(mounted.revealed))

\* C9: after the load and any sequence of the input handlers, every
\* configuration passed to generateGrid has 2 <= gridSize <= 10,
\* 0 <= numGood <= gridSize * gridSize and
\* 0 <= numBad <= gridSize * gridSize - numGood, also when the configuration
\* was restored from storage.
C9_GenerateGridConfigValid ==
    \A c \in lastGenCall :
        /\ 2 <= c.gridSize /\ c.gridSize <= 10
        /\ 0 <= c.numGood /\ c.numGood <= c.gridSize * c.gridSize
        /\ 0 <= c.numBad /\ c.numBad <= c.gridSize * c.gridSize - c.numGood

\* C10: if the stored value is absent, is not parseable, or holds cells and
\* revealed that are not both arrays of gridSize * gridSize entries, the load
\* ends with isLoaded true, the config 5 / 9 / 3 / a drawn seed / side A, the
\* cells generateGrid makes of that config and 25 false marks, and so it
\* stays until the user acts.
C10_LoadFallsBack ==
    (~StoredValid(mounted) /\ loadPath # "none" /\ ops = 0)
    => /\ loadPath = "fresh"
       /\ Pending("isLoaded", isLoaded) = TRUE
       /\ Pending("config", config).gridSize = 5
       /\ Pending("config", config).numGood = 9
       /\ Pending("config", config).numBad = 3
       /\ Pending("config", config).side = "A"
       /\ Pending("config", config).seed \in RandomSeeds
       /\ Pending("cells", cells)
            = generateGrid(9, 3, 25, Pending("config", config).seed, "A")
       /\ Pending("revealed", revealed) = Repeat(FALSE, 25)

\* a stored object with cells of the wrong length was mounted, and the
\* component has settled on the fresh board
C10_Witness ==
    /\ mounted.kind = "v2" /\ ~StoredValid(mounted)
    /\ loadPath = "fresh" /\ isLoaded /\ Settled /\ ops = 0

(***************************************************************************)
(* More properties of the generator (checked under SpecGen).               *)
(***************************************************************************)

\* C12: in generateSideB, when the final loop starts, the pool holds as many
\* entries as there are positions still unfilled, so the loop never finds
\* the pool empty and never falls back to yellow.
C12_PoolMatchesUnfilled ==
    (genPc = "B" /\ genIn.totalCells >= 0) =>
        \A st \in {SideBBeforeFill(genIn.numGood, genIn.numBad,
                                   genIn.totalCells, genIn.seed)} :
            /\ Len(st.pool) = Count(st.result, "undefined")
            /\ Len(st.result) = genIn.totalCells

\* side B of a 5-cell grid with 2 green cells: 3 positions are unfilled
\* when the final loop starts
C12_Witness ==
    /\ genPc = "B" /\ genIn.totalCells = 5 /\ genIn.numGood = 2
    /\ Count(SideBBeforeFill(genIn.numGood, genIn.numBad, genIn.totalCells,
                             genIn.seed).result, "undefined") = 3
    /\ Count(gridB, "green") = 2

\* C16: with g = clamp(numGood, 0, totalCells) and p the number of pinned
\* positions, the number of positions green on both sides is exactly
\* p + max(0, (g - p) - (totalCells - g)): the unpinned green positions of
\* side A take non-green entries while the pool holds any and green ones
\* only after.
C16_SharedExact ==
    (genPc = "B" /\ genIn.totalCells >= 0) =>
        LET g == clamp(genIn.numGood, 0, genIn.totalCells)
            p == Len(PinnedIndices(gridA, genIn.seed))
        IN  Cardinality(SharedGreen(gridA, gridB))
                = p + Max(0, (g - p) - (genIn.totalCells - g))

\* a grid of 5 green cells: the pool holds green only and all 5 positions
\* are green on both sides, 2 more than the 3 pinned
C16_Witness ==
    /\ genPc = "B" /\ genIn.totalCells = 5 /\ genIn.numGood = 5
    /\ Len(PinnedIndices(gridA, genIn.seed)) = 3
    /\ Cardinality(SharedGreen(gridA, gridB)) = 5

(***************************************************************************)
(* More properties of the component (checked under Spec).                  *)
(***************************************************************************)

\* the grid generateGrid makes of the current config with the seed given
GridOf(seed) ==
    generateGrid(config.numGood, config.numBad, totalCells, seed, config.side)

\* C11 as stated: for every (numGood, numBad, totalCells, side), here those
\* of the configs the component reaches, generateGrid called with the seed
\* "" returns the grid generateGrid returns with the seed "default".
C11_EmptySeedIsDefault ==
    (Settled /\ isLoaded) => GridOf(<< >>) = GridOf(DefaultSeed)

\* C11 amended: seedToRng makes of "" the generator it makes of "default",
\* and the component passes "default" to generateGrid when the seed text is
\* empty: once the effects of a config change have settled with an empty
\* seed, cells is the grid generateGrid makes with the seed "default".
C11_EmptySeedRegenerates ==
    /\ seedToRng(<< >>) = seedToRng(DefaultSeed)
    /\ (Settled /\ isLoaded /\ lastOp = "config" /\ config.seed = << >>)
        => /\ cells = GridOf(DefaultSeed)
           /\ \A c \in lastGenCall : c.seed = DefaultSeed

\* the seed text was emptied and the board shown is not the one generateGrid
\* makes of the seed ""
C11_Witness ==
    /\ Settled /\ isLoaded /\ lastOp = "config" /\ config.seed = << >>
    /\ mounted.config.seed # << >>
    /\ cells # GridOf(<< >>)

\* C17: once loaded, after a change of config and once the effects have
\* settled, cells is generateGrid(numGood, numBad, gridSize * gridSize,
\* seed or "default" when it is empty, side) and revealed is
\* gridSize * gridSize times false; in every settled state cells and
\* revealed have gridSize * gridSize entries.
C17_RegeneratedAfterConfigChange ==
    /\ (Settled /\ isLoaded /\ lastOp = "config")
        => /\ cells = GridOf(IF config.seed = << >> THEN DefaultSeed ELSE config.seed)
           /\ revealed = Repeat(FALSE, config.gridSize * config.gridSize)
    /\ Settled
        => /\ Len(cells) = config.gridSize * config.gridSize
           /\ Len(revealed) = config.gridSize * config.gridSize

\* the size was changed on a board restored with a mark, and the new board
\* has settled
C17_Witness ==
    /\ Settled /\ isLoaded /\ lastOp = "config"
    /\ loadPath = "v2" /\ TRUE \in SeqToSet(Get(mounted.revealed))
    /\ config.gridSize # mounted.config.gridSize
    /\ Len(cells) = config.gridSize * config.gridSize

IsPermutation(a, b) ==
    /\ Len(a) = Len(b)
    /\ \A c \in SeqToSet(a) \cup SeqToSet(b) : Count(a, c) = Count(b, c)

\* C13: shuffleArraySeeded returns a permutation of its input (same length,
\* same elements as many times each) and leaves the input as it was, for
\* every input and every source of values in [0, 1).
C13_ShuffleIsPermutation ==
    /\ [](coPc \in {"loop", "done"} => IsPermutation(coResult, coArray))
    /\ [][coArray' = coArray]_vars

\* three different colours were shuffled by a source other than mulberry32
\* and came back in another order
C13_Witness ==
    /\ coPc = "done" /\ coSource = "any"
    /\ Len(coArray) = 3 /\ Cardinality(SeqToSet(coArray)) = 3
    /\ coResult # coArray

\* C14 as stated: a call on a sequence of length n draws exactly n - 1
\* times, the empty sequence included.
C14_DrawsLengthMinusOne ==
    coPc = "done" => coDraws = Len(coArray) - 1

\* C14 amended: a call on a sequence of length n >= 1 draws exactly n - 1
\* times, and a call on the empty sequence draws 0 times.
C14_DrawsExact ==
    coPc = "done" =>
        coDraws = (IF Len(coArray) = 0 THEN 0 ELSE Len(coArray) - 1)

\* the empty sequence was shuffled without a draw
C14_Witness ==
    coPc = "done" /\ coArray = << >> /\ coDraws = 0 /\ coK = {}

\* C15: configDigest returns a label of exactly 3 letters 'A'..'Z', computed
\* from gridSize, numGood, numBad, overlapGreens and seed only: the
\* configurations that differ only in side have the same digest.
C15_DigestThreeLetters ==
    \A d \in dgOut :
        /\ Len(d.A) = 3
        /\ \A n \in 1..3 : d.A[n] \in 65..90
        /\ d.B = d.A

\* a 5 x 5 configuration with a seed was digested for both sides
C15_Witness ==
    /\ coPc = "digest"
    /\ \E cfg \in dgIn : cfg.gridSize = 5 /\ cfg.numGood = 9 /\ cfg.seed = << 97 >>
    /\ \E d \in dgOut : Len(d.B) = 3

\* C19: every value a generator of seedToRng returns is k / 2^32 for an
\* integer k with 0 <= k < 2^32, and every swap index
\* j = floor(rnd() * (i + 1)) of shuffleArraySeeded has 0 <= j <= i.
C19_DrawsInRange ==
    /\ \A k \in coK : k[1] \in 0..65535 /\ k[2] \in 0..65535
    /\ \A p \in coJ : 0 <= p[2] /\ p[2] <= p[1]

\* mulberry32 returned a value of at least 0.5, whose 32 bits read as an
\* int32 are negative
C19_Witness ==
    /\ coPc = "done" /\ coSource = "mulberry" /\ coDraws = 2
    /\ \E k \in coK : k[1] >= 32768

\* the reference FNV-1a fold on unsigned 32-bit integers.  h * 16777619 is
\* h * (2^24 + 2^8 + 2^7 + 2^4 + 2 + 1), summed modulo 2^32
RefShl(w, n) ==
    IF n >= 16 THEN << (w[2] % (2 ^ (32 - n))) * (2 ^ (n - 16)), 0 >>
    ELSE << ((w[1] % (2 ^ (16 - n))) * (2 ^ n)) + (w[2] \div (2 ^ (16 - n))),
            (w[2] % (2 ^ (16 - n))) * (2 ^ n) >>

RefAdd(x, y) ==
    << (x[1] + y[1] + ((x[2] + y[2]) \div 65536)) % 65536, (x[2] + y[2]) % 65536 >>

RefMulPrime(h) ==
    RefAdd(RefShl(h, 24),
    RefAdd(RefShl(h, 8),
    RefAdd(RefShl(h, 7),
    RefAdd(RefShl(h, 4),
    RefAdd(RefShl(h, 1), h)))))

RECURSIVE RefFnv1a(_, _)
RefFnv1a(str, n) ==
    IF n = 0 THEN << 33052, 40389 >>
    ELSE LET h == RefFnv1a(str, n - 1)
         IN  RefMulPrime(<< h[1], BitXor(h[2], str[n]) >>)

\* C20: xfnv1a(s) is the reference FNV-1a fold on unsigned 32-bit integers,
\* from 2166136261 with h := ((h XOR c) * 16777619) mod 2^32 for each
\* character code c in order, and lies in 0 .. 2^32 - 1.
C20_HashIsFnv1a ==
    coPc \in {"hashed", "seeded", "loop", "done"} =>
        /\ coHash = RefFnv1a(coStr, Len(coStr))
        /\ coHash[1] \in 0..65535 /\ coHash[2] \in 0..65535

\* a string of two characters whose hash has the top bit set, so that the
\* int32 Math.imul returned last was negative
C20_Witness ==
    /\ coPc = "hashed" /\ Len(coStr) = 2 /\ coStr[1] = 65535
    /\ coHash[1] >= 32768

=============================================================================
